---- MODULE Spec2Model ----
(***************************************************************************)
(* Stock ledger of gudang_supabase.py: the items table, the transactions   *)
(* table and the handlers that move stock in and out of them.              *)
(*                                                                         *)
(* Texts (item names, units) are sequences of one-character strings, so    *)
(* that str.strip() and the truth test "not name" are computed, not        *)
(* assumed.  Quantities are integers.                                      *)
(***************************************************************************)
EXTENDS Integers, Sequences, FiniteSets, TLC

VARIABLES
    items,          \* table items: a set of rows
    transactions,   \* table transactions: the rows in insertion order
    nextId,         \* the next value of items.id (SERIAL)
    sess,           \* per browser session: the submitted form and where its handler is
    files,          \* the workbooks downloaded so far
    users,          \* table users: a set of rows, username is the primary key
    auth            \* per browser session: st.session_state.auth

vars == <<items, transactions, nextId, sess, files, users, auth>>

----------------------------------------------------------------------------
(* Bounds of the model *)

MaxQty == 2        \* largest quantity typed into a form or a sheet row
MaxStock == 3      \* largest stored quantity explored
MaxTx == 2         \* longest transactions table explored
MaxId == 2         \* largest SERIAL id handed out
MaxLines == 2      \* longest batch (in_multi / out_multi)
MaxRows == 2       \* longest imported sheet

----------------------------------------------------------------------------
(* Texts *)

EmptyText == << >>
Names == { << >>, <<"a">>, <<" ", "a">> }
Units == { << >>, <<"u">>, <<"v">> }
Requesters == { << >>, <<"r">> }

RECURSIVE StripLeft(_)
StripLeft(s) ==
    IF s # << >> /\ Head(s) = " " THEN StripLeft(Tail(s)) ELSE s

RECURSIVE StripRight(_)
StripRight(s) ==
    IF s # << >> /\ s[Len(s)] = " " THEN StripRight(SubSeq(s, 1, Len(s) - 1)) ELSE s

\* str.strip()
Strip(s) == StripRight(StripLeft(s))

----------------------------------------------------------------------------
(* Rows *)

NoId == 0          \* Python None in the item_id column

\* optional columns of an item row, as the forms and the import supply them
Meta(category, min_stock, rack_location, expiry_date) ==
    [category |-> category, min_stock |-> min_stock,
     rack_location |-> rack_location, expiry_date |-> expiry_date]

DefaultMeta == Meta("", 0, "", "none")

ItemRow(id, name, unit, quantity, meta, created_at) ==
    [id |-> id, name |-> name, unit |-> unit, quantity |-> quantity,
     category |-> meta.category, min_stock |-> meta.min_stock,
     rack_location |-> meta.rack_location, expiry_date |-> meta.expiry_date,
     created_at |-> created_at]

\* a line of a form with its optional fields filled in
LineWith(name, unit, quantity, meta) ==
    [name |-> name, unit |-> unit, quantity |-> quantity, meta |-> meta]

\* a line of a form with its optional fields as the form presents them
Line(name, unit, quantity) == LineWith(name, unit, quantity, DefaultMeta)

Matches_ByName(its, name, unit) == { r \in its : r.name = name }

\* select * from items where name = .. and unit = ..
Matches(its, name, unit) == { r \in its : r.name = name /\ r.unit = unit }

\* generate_trx_code: "TRX-<TYPE>-<timestamp>-<random>"; n stands for the
\* timestamp and the random suffix
TrxCode(trx_type, n) == <<"TRX", trx_type, n>>

Stamps == {"s1", "s2"}

generate_trx_code(trx_type) == { TrxCode(trx_type, n) : n \in Stamps }

\* the row add_transaction_record inserts
TrxRow(trx_type, item_id, name, quantity, unit, bundle_code, trx_code) ==
    [trx_type |-> trx_type, item_id |-> item_id, name |-> name,
     quantity |-> quantity, unit |-> unit,
     bundle_code |-> bundle_code, trx_code |-> trx_code]

add_transaction_record_Replace(trs, trx_type, item_id, name, quantity, unit, bundle_code, trx_code) ==
    <<TrxRow(trx_type, item_id, name, quantity, unit, bundle_code, trx_code)>>

add_transaction_record(trs, trx_type, item_id, name, quantity, unit, bundle_code, trx_code) ==
    Append(trs, TrxRow(trx_type, item_id, name, quantity, unit, bundle_code, trx_code))

----------------------------------------------------------------------------
(* Database state threaded through a handler *)

Db(its, nid) == [items |-> its, nextId |-> nid]

\* datetime.now() (line 131), read as a logical clock: it has advanced with
\* every row inserted into items, so a reading is later than the created_at
\* of every row that is there
Now(db) == db.nextId

AddQty_Overwrite(existing_qty, quantity) == quantity

\* "new_qty = existing_qty + (quantity or 0)" (line 137)
AddQty(existing_qty, quantity) == existing_qty + quantity

\* an upsert that leaves the optional columns of a row it finds as they are
upsert_item_KeepMeta(db, name0, unit, quantity, meta) ==
    LET name == Strip(name0)
        found == Matches(db.items, name, unit)
    IN IF found # {}
       THEN { [db |-> Db((db.items \ {item}) \cup
                           {[item EXCEPT !.quantity = AddQty(item.quantity, quantity)]},
                         db.nextId),
               id |-> item.id] : item \in found }
       ELSE { [db |-> Db(db.items \cup {ItemRow(db.nextId, name, unit, quantity, meta,
                                                Now(db))},
                         db.nextId + 1),
               id |-> db.nextId] }

\* upsert_item: the possible outcomes [db, id]; limit(1) without an order
\* returns any of the matching rows.  The update writes quantity, the four
\* optional columns and updated_at (which the model leaves out); the insert
\* stamps the row with the clock's reading.
upsert_item(db, name0, unit, quantity, meta) ==
    LET name == Strip(name0)
        found == Matches(db.items, name, unit)
    IN IF found # {}
       THEN { [db |-> Db((db.items \ {item}) \cup
                           {ItemRow(item.id, item.name, item.unit,
                                    AddQty(item.quantity, quantity), meta,
                                    item.created_at)},
                         db.nextId),
               id |-> item.id] : item \in found }
       ELSE { [db |-> Db(db.items \cup {ItemRow(db.nextId, name, unit, quantity, meta,
                                                Now(db))},
                         db.nextId + 1),
               id |-> db.nextId] }

\* the update of adjust_item_for_out: only quantity (and updated_at) is written
SetQuantity(its, item, new_qty) ==
    (its \ {item}) \cup {[item EXCEPT !.quantity = new_qty]}

ShortExisting_Never(existing, quantity) == FALSE

ShortExisting_Boundary(existing, quantity) == existing <= quantity

\* "existing < quantity" (line 167)
ShortExisting(existing, quantity) == existing < quantity

\* the quantity line 169 computes from what line 162 read
NewQty(existing, quantity) == existing - quantity

\* adjust_item_for_out: the possible outcomes [db, id, err]
adjust_item_for_out(db, name, unit, quantity) ==
    LET found == Matches(db.items, name, unit)
    IN IF found = {}
       THEN { [db |-> db, id |-> NoId, err |-> "not_found"] }
       ELSE { IF ShortExisting(item.quantity, quantity)
              THEN [db |-> db, id |-> NoId, err |-> "insufficient"]
              ELSE [db |-> Db(SetQuantity(db.items, item, NewQty(item.quantity, quantity)),
                              db.nextId),
                    id |-> item.id, err |-> "none"] : item \in found }

----------------------------------------------------------------------------
(* Sessions.  A submitted form waits in sess[p].form until its handler     *)
(* runs; the handler leaves how it ended in sess[p].result and the tables   *)
(* as it found them in sess[p].before; when the script run ends the session *)
(* waits for the next form.                                                *)

Sessions == {1, 2}

\* columns: the column names of an uploaded sheet
Form(op, lines, requester, columns) ==
    [op |-> op, lines |-> lines, requester |-> requester, columns |-> columns]

\* a form that is not a sheet
NoColumns == {}

NoForm == Form("none", << >>, << >>, NoColumns)

NoRead == [id |-> NoId, quantity |-> 0]

\* the tables as a handler found them
Tables(its, trs) == [items |-> its, transactions |-> trs]

NoTables == Tables({}, << >>)

Session(pc, form, result, read, before) ==
    [pc |-> pc, form |-> form, result |-> result, read |-> read, before |-> before]

IdleSession == Session("idle", NoForm, "none", NoRead, NoTables)

\* hash_pw (lines 68-69): the SHA-256 digest of the password, as text
hash_pw(pw) == <<"sha256", pw>>

Account(username, password_hash) ==
    [username |-> username, password_hash |-> password_hash]

\* the account the login page announces (line 296).  Nothing in the script
\* creates it: ensure_default_admin (lines 74-80) is never called, the row
\* comes from the operator of the database.
SeedUsers == {Account("admin", hash_pw("admin123"))}

\* a verify_login that looks at the username only
verify_login_NameOnly(us, username, password) ==
    /\ username # ""
    /\ \E u \in us : u.username = username

\* verify_login (lines 85-92)
verify_login(us, username, password) ==
    /\ username # ""
    /\ \E u \in us : u.username = username /\ u.password_hash = hash_pw(password)

\* the login form (lines 284-287)
LoginForm(username, password) ==
    [op |-> "login", lines |-> << >>, requester |-> << >>, columns |-> NoColumns,
     username |-> username, password |-> password]

Init ==
    /\ items = {}
    /\ transactions = << >>
    /\ nextId = 1
    /\ sess = [p \in Sessions |-> IdleSession]
    /\ files = {}
    /\ users = SeedUsers
    /\ auth = [p \in Sessions |-> FALSE]

\* the script run of a session that is not logged in (lines 282-297) with
\* the login form submitted: the run ends at the rerun of line 293 or at
\* st.stop (line 297), before the pages
LoginPage(p, form) ==
    /\ ~auth[p]
    /\ sess[p].pc = "idle"
    /\ LET ok == verify_login(users, form.username, form.password)
       IN /\ auth' = [auth EXCEPT ![p] = ok]
          /\ sess' = [sess EXCEPT ![p] = Session("done", form,
                                                 IF ok THEN "ok" ELSE "denied",
                                                 NoRead, NoTables)]
    /\ UNCHANGED <<items, transactions, nextId, files, users>>

\* the user of session p presses the submit button of a form of a page; the
\* pages are reached by the script runs of a logged-in session only (line 282:
\* the other runs end at line 297)
Submit(p, form) ==
    /\ auth[p]
    /\ sess[p].pc = "idle"
    /\ sess' = [sess EXCEPT ![p] = Session("submitted", form, "none", NoRead, NoTables)]
    /\ UNCHANGED <<items, transactions, nextId, files, users, auth>>

Submitted(p, op) == sess[p].pc = "submitted" /\ sess[p].form.op = op

\* the handler ends with st.error: nothing was written
Rejected(p, result) ==
    /\ sess' = [sess EXCEPT ![p] = Session("done", sess[p].form, result, sess[p].read,
                                            Tables(items, transactions))]
    /\ UNCHANGED <<items, transactions, nextId, files, users, auth>>

\* the handler ends with st.success
Committed(p, db, trs) ==
    /\ items' = db.items
    /\ nextId' = db.nextId
    /\ transactions' = trs
    /\ sess' = [sess EXCEPT ![p] = Session("done", sess[p].form, "ok", sess[p].read,
                                            Tables(items, transactions))]
    /\ UNCHANGED <<files, users, auth>>

\* the script run ends (st.rerun, or the end of the script)
EndRun(p) ==
    /\ sess[p].pc = "done"
    /\ sess' = [sess EXCEPT ![p] = IdleSession]
    /\ UNCHANGED <<items, transactions, nextId, files, users, auth>>

BadFields_NoQty(l) == l.name = EmptyText \/ l.unit = EmptyText

\* "not name or qty <= 0 or not unit" (lines 393, 480, 528, 583)
BadFields(l) == l.name = EmptyText \/ l.quantity <= 0 \/ l.unit = EmptyText

\* "(res.data[0].get('quantity') or 0) < qty" (lines 536, 595)
Short(row, qty) == row.quantity < qty

\* "Barang Masuk", Single-item (lines 392-400)
RecordInbound(p) ==
    /\ Submitted(p, "in")
    /\ LET l == sess[p].form.lines[1]
       IN IF BadFields(l)
          THEN Rejected(p, "validation")
          ELSE \E u \in upsert_item(Db(items, nextId), l.name, l.unit, l.quantity, l.meta) :
               \E trx_code \in generate_trx_code("IN") :
                  Committed(p, u.db,
                            add_transaction_record(transactions, "in", u.id, l.name,
                                                   l.quantity, l.unit, trx_code, trx_code))

\* a handler that hands out what is there and empties the item
RecordOutbound_Clamped(p) ==
    /\ Submitted(p, "out")
    /\ LET l == sess[p].form.lines[1]
           res == Matches(items, l.name, l.unit)
       IN IF BadFields(l) \/ sess[p].form.requester = EmptyText
          THEN Rejected(p, "validation")
          ELSE IF res = {}
          THEN Rejected(p, "not_found")
          ELSE \E row \in res :
               \E trx_code \in generate_trx_code("OUT") :
                  Committed(p,
                            Db(SetQuantity(items, row,
                                           IF row.quantity < l.quantity THEN 0
                                           ELSE row.quantity - l.quantity), nextId),
                            add_transaction_record(transactions, "out", row.id, l.name,
                                                   l.quantity, l.unit, trx_code, trx_code))

\* a handler that books a request for an item it does not find as a debt
RecordOutbound_Backorder(p) ==
    /\ Submitted(p, "out")
    /\ LET l == sess[p].form.lines[1]
           res == Matches(items, l.name, l.unit)
       IN IF BadFields(l) \/ sess[p].form.requester = EmptyText
          THEN Rejected(p, "validation")
          ELSE IF res = {}
          THEN \E trx_code \in generate_trx_code("OUT") :
                  Committed(p,
                            Db(items \cup {ItemRow(nextId, l.name, l.unit, -l.quantity,
                                                   DefaultMeta, nextId)}, nextId + 1),
                            add_transaction_record(transactions, "out", nextId, l.name,
                                                   l.quantity, l.unit, trx_code, trx_code))
          ELSE \E row \in res :
               IF Short(row, l.quantity)
               THEN Rejected(p, "insufficient")
               ELSE \E a \in adjust_item_for_out(Db(items, nextId), l.name, l.unit, l.quantity) :
                    IF a.err # "none"
                    THEN Rejected(p, a.err)
                    ELSE \E trx_code \in generate_trx_code("OUT") :
                         Committed(p, a.db,
                                   add_transaction_record(transactions, "out", a.id, l.name,
                                                          l.quantity, l.unit, trx_code, trx_code))

\* "Barang Keluar", Single-item (lines 527-546)
RecordOutbound(p) ==
    /\ Submitted(p, "out")
    /\ LET l == sess[p].form.lines[1]
           res == Matches(items, l.name, l.unit)
       IN IF BadFields(l) \/ sess[p].form.requester = EmptyText
          THEN Rejected(p, "validation")
          ELSE IF res = {}
          THEN Rejected(p, "not_found")
          ELSE \E row \in res :
               IF Short(row, l.quantity)
               THEN Rejected(p, "insufficient")
               ELSE \E a \in adjust_item_for_out(Db(items, nextId), l.name, l.unit, l.quantity) :
                    IF a.err # "none"
                    THEN Rejected(p, a.err)
                    ELSE \E trx_code \in generate_trx_code("OUT") :
                         Committed(p, a.db,
                                   add_transaction_record(transactions, "out", a.id, l.name,
                                                          l.quantity, l.unit, trx_code, trx_code))

BadLines_FirstOnly(lines) == { i \in {1} : BadFields(lines[1]) }

\* the validation loops of the batch handlers (lines 479-481, 582-584)
BadLines(lines) == { i \in 1..Len(lines) : BadFields(lines[i]) }

\* the lines the apply phase of the inbound batch acts on: the loop over
\* in_multi (lines 489-496) only converts the expiry date; upsert_item and
\* add_transaction_record (lines 500-501) follow the loop and act on the loop
\* variable's last value
InboundApplied(lines) == <<lines[Len(lines)]>>

\* lines 500-501 for each line of ls: the possible outcomes [db, trs]
RECURSIVE ApplyIn(_, _, _, _, _)
ApplyIn(db, trs, ls, bundle, trx_code) ==
    IF ls = << >>
    THEN { [db |-> db, trs |-> trs] }
    ELSE LET it == Head(ls)
         IN UNION { ApplyIn(u.db,
                            add_transaction_record(trs, "in", u.id, it.name, it.quantity,
                                                   it.unit, bundle, trx_code),
                            Tail(ls), bundle, trx_code)
                    : u \in upsert_item(db, it.name, it.unit, it.quantity, it.meta) }

\* "Barang Masuk", Multi-item (lines 474-504)
RecordInboundBatch(p) ==
    /\ Submitted(p, "in_batch")
    /\ LET lines == sess[p].form.lines
       IN IF lines = << >>
          THEN Rejected(p, "empty")
          ELSE IF BadLines(lines) # {}
          THEN Rejected(p, "validation")
          ELSE \E trx_code \in generate_trx_code("IN") :
               \E o \in ApplyIn(Db(items, nextId), transactions, InboundApplied(lines),
                                trx_code, trx_code) :
                  Committed(p, o.db, o.trs)

\* the pre-flight pass (lines 589-596): every line against the stored row
Insufficient(its, lines) ==
    { i \in 1..Len(lines) :
        LET res == Matches(its, lines[i].name, lines[i].unit)
        IN res = {} \/ \E row \in res : Short(row, lines[i].quantity) }

\* the loop with generate_trx_code called inside it
RECURSIVE ApplyOut_CodePerLine(_, _, _, _, _)
ApplyOut_CodePerLine(db, trs, ls, bundle, trx_code) ==
    IF ls = << >>
    THEN { [db |-> db, trs |-> trs] }
    ELSE LET it == Head(ls)
         IN UNION { ApplyOut_CodePerLine(a.db,
                             add_transaction_record(trs, "out", a.id, it.name, it.quantity,
                                                    it.unit, c, c),
                             Tail(ls), bundle, trx_code)
                    : a \in adjust_item_for_out(db, it.name, it.unit, it.quantity),
                      c \in generate_trx_code("OUT") }

\* the apply loop (lines 603-605): the possible outcomes [db, trs].  The error
\* adjust_item_for_out returns is dropped and the row is inserted with the id
\* it returned.
RECURSIVE ApplyOut(_, _, _, _, _)
ApplyOut(db, trs, ls, bundle, trx_code) ==
    IF ls = << >>
    THEN { [db |-> db, trs |-> trs] }
    ELSE LET it == Head(ls)
         IN UNION { ApplyOut(a.db,
                             add_transaction_record(trs, "out", a.id, it.name, it.quantity,
                                                    it.unit, bundle, trx_code),
                             Tail(ls), bundle, trx_code)
                    : a \in adjust_item_for_out(db, it.name, it.unit, it.quantity) }

\* "Barang Keluar", Multi-item (lines 575-608)
RecordOutboundBatch(p) ==
    /\ Submitted(p, "out_batch")
    /\ LET lines == sess[p].form.lines
       IN IF lines = << >>
          THEN Rejected(p, "empty")
          ELSE IF sess[p].form.requester = EmptyText
          THEN Rejected(p, "validation")
          ELSE IF BadLines(lines) # {}
          THEN Rejected(p, "validation")
          ELSE IF Insufficient(items, lines) # {}
          THEN Rejected(p, "insufficient")
          ELSE \E trx_code \in generate_trx_code("OUT") :
               \E o \in ApplyOut(Db(items, nextId), transactions, lines, trx_code, trx_code) :
                  Committed(p, o.db, o.trs)

\* the columns load_inventory_from_excel asks for (line 202)
RequiredColumns == {"name", "quantity", "unit"}

\* str.lower() on the column names the sheets of the model use
Lower(c) ==
    CASE c = "Name" -> "name"
      [] c = "QUANTITY" -> "quantity"
      [] c = "Unit" -> "unit"
      [] OTHER -> c

\* the keys of "df_columns = {c.lower(): c for c in df.columns}" (line 201)
df_columns(columns) == { Lower(c) : c \in columns }

MissingRequired_NameOnly(columns) == { r \in {"name"} : r \notin df_columns(columns) }

\* the required columns the sheet lacks (lines 203-205)
MissingRequired(columns) == { r \in RequiredColumns : r \notin df_columns(columns) }

\* a text cell as the row loop reads it, "str(row[..])": pandas reads an
\* empty cell as NaN, and str(NaN) is "nan"
CellText(s) == IF s = "" THEN "nan" ELSE s

\* the same of the cells of the columns name and unit (lines 209, 211)
CellName(s) == IF s = EmptyText THEN <<"n", "a", "n">> ELSE s

\* the optional columns of a sheet row (lines 212-225): read when the sheet
\* has the column
SheetMeta(columns, row) ==
    Meta(IF "category" \in df_columns(columns) THEN CellText(row.meta.category) ELSE "",
         IF "min_stock" \in df_columns(columns) THEN row.meta.min_stock ELSE 0,
         IF "rack_location" \in df_columns(columns)
            THEN CellText(row.meta.rack_location) ELSE "",
         IF "expiry_date" \in df_columns(columns) THEN row.meta.expiry_date ELSE "none")

\* the row loop of load_inventory_from_excel (lines 208-228): the possible
\* databases after upserting every row
RECURSIVE ImportRows(_, _, _)
ImportRows(db, columns, rows) ==
    IF rows = << >>
    THEN { db }
    ELSE LET row == Head(rows)
         IN UNION { ImportRows(u.db, columns, Tail(rows))
                    : u \in upsert_item(db, Strip(CellName(row.name)),
                                        Strip(CellName(row.unit)),
                                        row.quantity, SheetMeta(columns, row)) }

\* "Upload Inventaris" (lines 348-360): the sheet is refused when it lacks a
\* required column, before any row is read
load_inventory_from_excel(p) ==
    /\ Submitted(p, "import")
    /\ IF MissingRequired(sess[p].form.columns) # {}
       THEN Rejected(p, "format")
       ELSE \E db \in ImportRows(Db(items, nextId), sess[p].form.columns,
                                  sess[p].form.lines) :
               Committed(p, db, transactions)

\* a reset that empties table items only
ResetDB_KeepLog(p) ==
    /\ Submitted(p, "reset")
    /\ items' = {}
    /\ users' = { u \in users : u.username = "keep_admin" }
    /\ sess' = [sess EXCEPT ![p] = Session("done", sess[p].form, "ok", sess[p].read,
                                            Tables(items, transactions))]
    /\ UNCHANGED <<transactions, nextId, files, auth>>

\* a reset that leaves table users alone
ResetDB_KeepUsers(p) ==
    /\ Submitted(p, "reset")
    /\ Committed(p, Db({}, nextId), << >>)

\* "Pengaturan", reset (lines 697-702): the three deletes
ResetDB(p) ==
    /\ Submitted(p, "reset")
    /\ transactions' = << >>
    /\ items' = {}
    /\ users' = { u \in users : u.username = "keep_admin" }
    /\ sess' = [sess EXCEPT ![p] = Session("done", sess[p].form, "ok", sess[p].read,
                                            Tables(items, transactions))]
    /\ UNCHANGED <<nextId, files, auth>>

----------------------------------------------------------------------------
(* "Laporan & Analisis": the report and the download of the database *)

\* load_transactions_df (lines 247-256): the rows of table transactions in
\* the order of their insertion; the frame is empty when the table is
load_transactions_df(trs) == trs

\* the columns of table items (lines 12-23), the header of sheet "inventory"
ItemColumns ==
    {"id", "name", "category", "unit", "quantity", "min_stock", "rack_location",
     "expiry_date", "created_at", "updated_at"}

\* an item as a row of the sheet
SheetRow(r) ==
    LineWith(r.name, r.unit, r.quantity,
             Meta(r.category, r.min_stock, r.rack_location, r.expiry_date))

\* the rows of its in the orders "order by name" can give them; the collation
\* is the database's, so every order
Ordered(its) ==
    { seq \in [1..Cardinality(its) -> its] : \A i, j \in DOMAIN seq : i # j => seq[i] # seq[j] }

Workbook(columns, rows) == [columns |-> columns, rows |-> rows]

\* export_db_to_excel_bytes (lines 232-242): the first sheet of the workbook,
\* which is the sheet pd.read_excel reads back
export_db_to_excel_bytes(its) ==
    { Workbook(ItemColumns, [i \in DOMAIN seq |-> SheetRow(seq[i])]) : seq \in Ordered(its) }

ReportPage_Archiving(p) ==
    /\ sess[p].pc = "submitted" /\ sess[p].form.op \in {"report", "download"}
    /\ Committed(p, Db(items, nextId), << >>)

\* the page (lines 616-675), opened ("report") or run with the download
\* button pressed ("download").  With rows in the log the page calls
\* totals_for_period without its argument period (line 637) and the run ends
\* in a TypeError before the rest of the page, the download button included,
\* is reached.
ReportPage(p) ==
    /\ sess[p].pc = "submitted" /\ sess[p].form.op \in {"report", "download"}
    /\ IF load_transactions_df(transactions) # << >>
       THEN Rejected(p, "type_error")
       ELSE IF sess[p].form.op = "report"
       THEN Rejected(p, "shown")
       ELSE /\ \E f \in export_db_to_excel_bytes(items) : files' = files \cup {f}
            /\ sess' = [sess EXCEPT ![p] = Session("done", sess[p].form, "downloaded",
                                                    sess[p].read,
                                                    Tables(items, transactions))]
            /\ UNCHANGED <<items, transactions, nextId, users, auth>>

ReportForm == Form("report", << >>, << >>, NoColumns)

DownloadForm == Form("download", << >>, << >>, NoColumns)

----------------------------------------------------------------------------
(* Inputs *)

\* form lines with every field filled in; number_input has min_value 0
ValidLines == { Line(n, u, q) : n \in Names \ {EmptyText}, u \in Units \ {EmptyText},
                                q \in 1..MaxQty }

\* form lines with one field left empty
DefectLines == { Line(EmptyText, <<"u">>, 1), Line(<<"a">>, EmptyText, 1),
                 Line(<<"a">>, <<"u">>, 0) }

FormLines == ValidLines \cup DefectLines

\* sheet rows: any number in the quantity column
SheetRows == { Line(n, <<"u">>, q) : n \in Names \ {EmptyText}, q \in (-1)..1 }

\* the lists of at most k elements of S
UpTo(S, k) == UNION { [1..n -> S] : n \in 0..k }

InForms(S) == { Form("in", <<l>>, << >>, NoColumns) : l \in S }

OutForms(S) ==
    { Form("out", <<l>>, <<"r">>, NoColumns) : l \in S }
    \cup { Form("out", <<l>>, EmptyText, NoColumns) : l \in S }

InBatchForms(S) == { Form("in_batch", ls, << >>, NoColumns) : ls \in UpTo(S, MaxLines) }

\* one batch is submitted without a requester
OutBatchForms(S) ==
    { Form("out_batch", ls, <<"r">>, NoColumns) : ls \in UpTo(S, MaxLines) }
    \cup { Form("out_batch", <<l>>, EmptyText, NoColumns) : l \in S }

\* the header rows of the sheets uploaded: the required columns, the same in
\* other letter case, and headers that lack one or all of them
MixedCaseColumns == {"Name", "QUANTITY", "Unit"}

LackingColumns == { {"name", "quantity"}, {"Name", "unit"}, {"QUANTITY", "unit"}, {} }

\* sheets with the required columns, and sheets of at most one row with the
\* other headers
ImportForms ==
    { Form("import", rows, << >>, RequiredColumns) : rows \in UpTo(SheetRows, MaxRows) }
    \cup { Form("import", rows, << >>, columns) :
             rows \in UpTo(SheetRows, 1), columns \in {MixedCaseColumns} \cup LackingColumns }

ResetForm == Form("reset", << >>, << >>, NoColumns)

\* the runs explored: no table grows past the bounds
Bounded ==
    /\ Len(transactions') <= MaxTx
    /\ nextId' <= MaxId + 1
    /\ \A r \in items' : r.quantity <= MaxStock /\ r.quantity >= -MaxStock

UserNames == {"", "admin", "keep_admin"}

Passwords == {"", "admin123", "x"}

LoginForms == { LoginForm(username, password) : username \in UserNames, password \in Passwords }

\* the handlers, each run to its end
Handlers(p) ==
    \/ RecordInbound(p)
    \/ RecordOutbound(p)
    \/ RecordInboundBatch(p)
    \/ RecordOutboundBatch(p)
    \/ load_inventory_from_excel(p)
    \/ ResetDB(p)
    \/ ReportPage(p)

\* lines on the item ("a", "u")
LeanLines == { l \in FormLines : l.name = <<"a">> /\ l.unit = <<"u">> }

Forms ==
    InForms(FormLines) \cup OutForms(FormLines)
    \cup InBatchForms(LeanLines) \cup OutBatchForms(LeanLines)
    \cup ImportForms \cup {ResetForm, ReportForm}

\* one user, one form at a time, every handler
Next ==
    \/ \E form \in LoginForms : LoginPage(1, form)
    \/ sess[1].pc = "idle" /\ \E form \in Forms : Submit(1, form)
    \/ Handlers(1) /\ Bounded
    \/ EndRun(1)

Spec == Init /\ [][Next]_vars

\* sheets that stock the items ("a", "u") and ("a", "v")
StockSheets ==
    { Form("import", rows, << >>, RequiredColumns) :
        rows \in UpTo({ Line(<<"a">>, u, MaxQty) : u \in Units \ {EmptyText} }, MaxRows) }

BatchStudyForms ==
    StockSheets \cup InForms(ValidLines)
    \cup InBatchForms(FormLines) \cup OutBatchForms(FormLines)

\* the batch forms with every form line, on a store stocked by sheets and
\* inbound forms
NextBatch ==
    \/ \E form \in LoginForms : LoginPage(1, form)
    \/ sess[1].pc = "idle" /\ \E form \in BatchStudyForms : Submit(1, form)
    \/ load_inventory_from_excel(1) /\ Bounded
    \/ RecordInbound(1) /\ Bounded
    \/ RecordInboundBatch(1) /\ Bounded
    \/ RecordOutboundBatch(1) /\ Bounded
    \/ EndRun(1)

SpecBatch == Init /\ [][NextBatch]_vars

----------------------------------------------------------------------------
(* Two sessions at once: the single outbound handler, one database call per *)
(* step.  Nothing orders the calls of one session against the other's.     *)

Goto(p, pc, read) ==
    sess' = [sess EXCEPT ![p] = Session(pc, sess[p].form, "none", read, NoTables)]

\* lines 528-537: the form check, the handler's own select and stock check
OutCheck(p) ==
    /\ Submitted(p, "out")
    /\ LET l == sess[p].form.lines[1]
           res == Matches(items, l.name, l.unit)
       IN IF BadFields(l) \/ sess[p].form.requester = EmptyText
          THEN Rejected(p, "validation")
          ELSE IF res = {}
          THEN Rejected(p, "not_found")
          ELSE \E row \in res :
               IF Short(row, l.quantity)
               THEN Rejected(p, "insufficient")
               ELSE /\ Goto(p, "checked", NoRead)
                    /\ UNCHANGED <<items, transactions, nextId, files, users, auth>>

\* adjust_item_for_out, lines 162-168: the select and the check on what it read
OutAdjustRead(p) ==
    /\ sess[p].pc = "checked"
    /\ LET l == sess[p].form.lines[1]
           res == Matches(items, l.name, l.unit)
       IN IF res = {}
          THEN Rejected(p, "not_found")
          ELSE \E item \in res :
               IF ShortExisting(item.quantity, l.quantity)
               THEN Rejected(p, "insufficient")
               ELSE /\ Goto(p, "adjusting", [id |-> item.id, quantity |-> item.quantity])
                    /\ UNCHANGED <<items, transactions, nextId, files, users, auth>>

\* an update that takes the quantity off what is stored when it is run,
\* "set quantity = quantity - .."
OutAdjustWrite_Relative(p) ==
    /\ sess[p].pc = "adjusting"
    /\ LET l == sess[p].form.lines[1]
       IN items' = { IF r.id = sess[p].read.id
                     THEN [r EXCEPT !.quantity = r.quantity - l.quantity] ELSE r
                     : r \in items }
    /\ Goto(p, "adjusted", sess[p].read)
    /\ UNCHANGED <<transactions, nextId, files, users, auth>>

\* adjust_item_for_out, line 170: update items set quantity = new_qty where id = ..
OutAdjustWrite(p) ==
    /\ sess[p].pc = "adjusting"
    /\ LET l == sess[p].form.lines[1]
           new_qty == NewQty(sess[p].read.quantity, l.quantity)
       IN items' = { IF r.id = sess[p].read.id THEN [r EXCEPT !.quantity = new_qty] ELSE r
                     : r \in items }
    /\ Goto(p, "adjusted", sess[p].read)
    /\ UNCHANGED <<transactions, nextId, files, users, auth>>

\* lines 543-545: the code and the transaction row
OutRecord(p) ==
    /\ sess[p].pc = "adjusted"
    /\ LET l == sess[p].form.lines[1]
       IN \E trx_code \in generate_trx_code("OUT") :
             transactions' = add_transaction_record(transactions, "out", sess[p].read.id,
                                                    l.name, l.quantity, l.unit,
                                                    trx_code, trx_code)
    /\ sess' = [sess EXCEPT ![p] = Session("done", sess[p].form, "ok", sess[p].read,
                                            NoTables)]
    /\ UNCHANGED <<items, nextId, files, users, auth>>

\* the store after one sheet with one row ("a", "u", q) was imported
InitConc ==
    /\ \E q \in 1..MaxStock : items = { ItemRow(1, <<"a">>, <<"u">>, q, DefaultMeta, 1) }
    /\ transactions = << >>
    /\ nextId = 2
    /\ sess = [p \in Sessions |-> IdleSession]
    /\ files = {}
    /\ users = SeedUsers
    /\ auth = [p \in Sessions |-> FALSE]

ConcForms == OutForms(LeanLines)

NextConc ==
    \E p \in Sessions :
       \/ \E form \in LoginForms : LoginPage(p, form)
       \/ \E form \in ConcForms : Submit(p, form)
       \/ OutCheck(p)
       \/ OutAdjustRead(p)
       \/ OutAdjustWrite(p)
       \/ OutRecord(p) /\ Bounded
       \/ EndRun(p)

SpecConc == InitConc /\ [][NextConc]_vars

----------------------------------------------------------------------------
(* The round trip of a downloaded workbook *)

MaxFiles == 1      \* most workbooks kept

\* sheet rows whose name cell is "a" or a blank
RoundTripRows == { Line(n, u, 1) : n \in {<<"a">>, <<" ">>}, u \in {<<"u">>, <<"v">>} }

\* the uploads of the workbooks downloaded
Uploads == { Form("import", f.rows, << >>, f.columns) : f \in files }

RoundTripForms ==
    { Form("import", rows, << >>, RequiredColumns) : rows \in UpTo(RoundTripRows, MaxRows) }
    \cup {ResetForm, ReportForm, DownloadForm}

\* a store stocked by sheets is downloaded, and the workbook uploaded again,
\* into the store it came from or after a reset
NextRoundTrip ==
    \/ \E form \in LoginForms : LoginPage(1, form)
    \/ sess[1].pc = "idle" /\ \E form \in RoundTripForms \cup Uploads : Submit(1, form)
    \/ load_inventory_from_excel(1) /\ Bounded
    \/ ResetDB(1)
    \/ ReportPage(1) /\ Cardinality(files') <= MaxFiles
    \/ EndRun(1)

SpecRoundTrip == Init /\ [][NextRoundTrip]_vars

----------------------------------------------------------------------------
(* Inbound forms with their optional fields filled in *)

\* what the optional fields of the inbound form are filled in with
Metas == { DefaultMeta, Meta("c", 1, "k", "d"), Meta("c", 0, "", "none") }

MetaLines ==
    { LineWith(n, u, 1, m) : n \in Names \ {EmptyText}, u \in Units \ {EmptyText}, m \in Metas }

\* sheets that stock the items ("a", "u") and ("a", "v") with one piece
MetaSheets ==
    { Form("import", rows, << >>, RequiredColumns) :
        rows \in UpTo({ Line(<<"a">>, u, 1) : u \in Units \ {EmptyText} }, MaxRows) }

NextMeta ==
    \/ \E form \in LoginForms : LoginPage(1, form)
    \/ sess[1].pc = "idle" /\ \E form \in MetaSheets \cup InForms(MetaLines) : Submit(1, form)
    \/ load_inventory_from_excel(1) /\ Bounded
    \/ RecordInbound(1) /\ Bounded
    \/ EndRun(1)

SpecMeta == Init /\ [][NextMeta]_vars

----------------------------------------------------------------------------
(* totals_for_period, applied to frames of movements *)

MaxMoves == 2      \* most rows of a frame

\* days of the calendar: yday counts from 1, wday from Monday = 0
Day(year, month, day, yday, wday) ==
    [year |-> year, month |-> month, day |-> day, yday |-> yday, wday |-> wday]

Days ==
    { Day(2024, 1, 1, 1, 0), Day(2024, 12, 30, 365, 0), Day(2024, 12, 31, 366, 1),
      Day(2025, 1, 1, 1, 2), Day(2025, 1, 6, 6, 0) }

\* a row of the frame load_transactions_df returns
MoveRow(date, name, unit, trx_type, quantity) ==
    [date |-> date, name |-> name, unit |-> unit, trx_type |-> trx_type,
     quantity |-> quantity]

MoveRows ==
    { MoveRow(d, n, u, t, q) : d \in Days, n \in {<<"a">>, <<"b">>}, u \in {<<"u">>, <<"v">>},
                               t \in {"in", "out"}, q \in 1..MaxQty }

\* strftime('%Y-%W') (line 266): %W is the week of the year whose weeks begin
\* on Monday, the days before the first Monday being week 0
WeekBucket(d) == <<d.year, (d.yday + 6 - d.wday) \div 7>>

\* strftime('%Y-%m') (line 272)
MonthBucket(d) == <<d.year, d.month>>

\* the column the frame is grouped by: 'week' (line 266) or 'month' (line 272)
PeriodColumn(period, d) == IF period = "W" THEN WeekBucket(d) ELSE MonthBucket(d)

GroupKey_IgnoringType(row, period) ==
    [bucket |-> PeriodColumn(period, row.date), name |-> row.name, unit |-> row.unit,
     trx_type |-> "in"]

\* the key of groupby([bucket, 'name', 'unit', 'trx_type'])
GroupKey(row, period) ==
    [bucket |-> PeriodColumn(period, row.date), name |-> row.name, unit |-> row.unit,
     trx_type |-> row.trx_type]

\* ['quantity'].sum() over the rows of df in group key
RECURSIVE SumQuantity(_, _, _)
SumQuantity(df, key, period) ==
    IF df = << >> THEN 0
    ELSE (IF GroupKey(Head(df), period) = key THEN Head(df).quantity ELSE 0)
         + SumQuantity(Tail(df), key, period)

\* df.groupby([..])['quantity'].sum().reset_index(): one row per group
GroupSum(df, period) ==
    { [bucket |-> key.bucket, name |-> key.name, unit |-> key.unit,
       trx_type |-> key.trx_type, quantity |-> SumQuantity(df, key, period)]
      : key \in { GroupKey(df[i], period) : i \in DOMAIN df } }

\* totals_for_period (lines 258-277); an empty frame is an empty set of rows
totals_for_period(df, period) ==
    IF df = << >> THEN {}
    ELSE IF period = "W" THEN GroupSum(df, "W")
    ELSE IF period = "M" THEN GroupSum(df, "M")
    ELSE {}

\* a call of totals_for_period
TotalsCall(df, period) ==
    [op |-> "totals", lines |-> df, requester |-> << >>, columns |-> NoColumns,
     period |-> period]

Periods == {"W", "M", "D"}

TotalsCalls == { TotalsCall(df, period) : df \in UpTo(MoveRows, MaxMoves), period \in Periods }

\* the call returns; sess[p].result holds the frame it returned
TotalsByPeriod(p) ==
    /\ Submitted(p, "totals")
    /\ sess' = [sess EXCEPT ![p] =
                   Session("done", sess[p].form,
                           totals_for_period(sess[p].form.lines, sess[p].form.period),
                           sess[p].read, Tables(items, transactions))]
    /\ UNCHANGED <<items, transactions, nextId, files, users, auth>>

NextTotals ==
    \/ \E form \in LoginForms : LoginPage(1, form)
    \/ sess[1].pc = "idle" /\ \E call \in TotalsCalls : Submit(1, call)
    \/ TotalsByPeriod(1)
    \/ EndRun(1)

SpecTotals == Init /\ [][NextTotals]_vars

----------------------------------------------------------------------------
(* A database call that raises during the apply phase of a batch.  Nothing  *)
(* catches the exception (lines 485-504, 600-608): the script run ends with *)
(* what was written so far.                                                *)

MaxFailLines == 3  \* longest batch whose apply phase is interrupted

Failed_RolledBack(p, db, trs, applied) ==
    /\ sess' = [sess EXCEPT ![p] =
                   [pc |-> "done", form |-> sess[p].form, result |-> "exception",
                    read |-> sess[p].read, before |-> Tables(items, transactions),
                    applied |-> applied]]
    /\ UNCHANGED <<items, transactions, nextId, files, users, auth>>

\* the run of session p ends in the exception; applied is the number of
\* lines the loop had gone through when the call raised
Failed(p, db, trs, applied) ==
    /\ items' = db.items
    /\ nextId' = db.nextId
    /\ transactions' = trs
    /\ sess' = [sess EXCEPT ![p] =
                   [pc |-> "done", form |-> sess[p].form, result |-> "exception",
                    read |-> sess[p].read, before |-> Tables(items, transactions),
                    applied |-> applied]]
    /\ UNCHANGED <<files, users, auth>>

\* the apply loop of the outbound batch (lines 603-605) with a call that
\* raises: in adjust_item_for_out (nothing of the line is written) or in
\* add_transaction_record (the line's update is written, its row is not).
\* The possible outcomes [db, trs, applied].
RECURSIVE ApplyOutInterrupted(_, _, _, _, _, _)
ApplyOutInterrupted(db, trs, ls, bundle, trx_code, applied) ==
    IF ls = << >>
    THEN {}
    ELSE LET it == Head(ls)
             adjusted == adjust_item_for_out(db, it.name, it.unit, it.quantity)
         IN { [db |-> db, trs |-> trs, applied |-> applied] }
            \cup { [db |-> a.db, trs |-> trs, applied |-> applied] : a \in adjusted }
            \cup UNION { ApplyOutInterrupted(a.db,
                             add_transaction_record(trs, "out", a.id, it.name, it.quantity,
                                                    it.unit, bundle, trx_code),
                             Tail(ls), bundle, trx_code, applied + 1)
                         : a \in adjusted }

\* lines 500-501 with a call that raises: in upsert_item or in
\* add_transaction_record
RECURSIVE ApplyInInterrupted(_, _, _, _, _, _)
ApplyInInterrupted(db, trs, ls, bundle, trx_code, applied) ==
    IF ls = << >>
    THEN {}
    ELSE LET it == Head(ls)
             upserted == upsert_item(db, it.name, it.unit, it.quantity, it.meta)
         IN { [db |-> db, trs |-> trs, applied |-> applied] }
            \cup { [db |-> u.db, trs |-> trs, applied |-> applied] : u \in upserted }
            \cup UNION { ApplyInInterrupted(u.db,
                             add_transaction_record(trs, "in", u.id, it.name, it.quantity,
                                                    it.unit, bundle, trx_code),
                             Tail(ls), bundle, trx_code, applied + 1)
                         : u \in upserted }

\* "Barang Keluar", Multi-item, with a call of the apply phase that raises
RecordOutboundBatchRaising(p) ==
    /\ Submitted(p, "out_batch")
    /\ LET lines == sess[p].form.lines
       IN /\ lines # << >>
          /\ sess[p].form.requester # EmptyText
          /\ BadLines(lines) = {}
          /\ Insufficient(items, lines) = {}
          /\ \E trx_code \in generate_trx_code("OUT") :
             \E o \in ApplyOutInterrupted(Db(items, nextId), transactions, lines,
                                          trx_code, trx_code, 0) :
                Failed(p, o.db, o.trs, o.applied)

\* "Barang Masuk", Multi-item, with a call of the apply phase that raises
RecordInboundBatchRaising(p) ==
    /\ Submitted(p, "in_batch")
    /\ LET lines == sess[p].form.lines
       IN /\ lines # << >>
          /\ BadLines(lines) = {}
          /\ \E trx_code \in generate_trx_code("IN") :
             \E o \in ApplyInInterrupted(Db(items, nextId), transactions,
                                         InboundApplied(lines), trx_code, trx_code, 0) :
                Failed(p, o.db, o.trs, o.applied)

\* lines that take or bring one piece of ("a", "u") or ("a", "v")
UnitLines == { Line(<<"a">>, u, 1) : u \in Units \ {EmptyText} }

RaisingStudyForms ==
    StockSheets
    \cup { Form("out_batch", ls, <<"r">>, NoColumns) : ls \in UpTo(UnitLines, MaxFailLines) }
    \cup { Form("in_batch", ls, << >>, NoColumns) : ls \in UpTo(UnitLines, MaxLines) }

\* batches on a store stocked by sheets, with database calls that can raise
NextRaising ==
    \/ \E form \in LoginForms : LoginPage(1, form)
    \/ sess[1].pc = "idle" /\ \E form \in RaisingStudyForms : Submit(1, form)
    \/ load_inventory_from_excel(1) /\ Bounded
    \/ RecordOutboundBatch(1) /\ Bounded
    \/ RecordOutboundBatchRaising(1) /\ Bounded
    \/ RecordInboundBatch(1) /\ Bounded
    \/ RecordInboundBatchRaising(1) /\ Bounded
    \/ EndRun(1)

SpecRaising == Init /\ [][NextRaising]_vars

----------------------------------------------------------------------------
(* Two sessions at once, every recording: the single inbound handler and   *)
(* the outbound batch handler too run one database call per step.          *)

\* the single inbound handler up to the select of upsert_item (lines 393,
\* 130-133); a read without an id says that no row was found
InUpsertRead(p) ==
    /\ Submitted(p, "in")
    /\ LET l == sess[p].form.lines[1]
           res == Matches(items, Strip(l.name), l.unit)
       IN IF BadFields(l)
          THEN Rejected(p, "validation")
          ELSE /\ IF res = {}
                  THEN Goto(p, "upserting", NoRead)
                  ELSE \E item \in res :
                          Goto(p, "upserting", [id |-> item.id, quantity |-> item.quantity])
               /\ UNCHANGED <<items, transactions, nextId, files, users, auth>>

\* upsert_item, lines 137-145: the update of the row read, with the quantity
\* computed from what was read; or lines 148-159: the insert
InUpsertWrite(p) ==
    /\ sess[p].pc = "upserting"
    /\ LET l == sess[p].form.lines[1]
           read == sess[p].read
       IN IF read.id # NoId
          THEN /\ items' = { IF r.id = read.id
                             THEN ItemRow(r.id, r.name, r.unit,
                                          AddQty(read.quantity, l.quantity), l.meta,
                                          r.created_at)
                             ELSE r : r \in items }
               /\ Goto(p, "upserted", read)
               /\ UNCHANGED <<transactions, nextId, files, users, auth>>
          ELSE /\ items' = items \cup {ItemRow(nextId, Strip(l.name), l.unit, l.quantity,
                                               l.meta, Now(Db(items, nextId)))}
               /\ nextId' = nextId + 1
               /\ Goto(p, "upserted", [id |-> nextId, quantity |-> 0])
               /\ UNCHANGED <<transactions, files, users, auth>>

\* lines 397-399: the code and the transaction row
InRecord(p) ==
    /\ sess[p].pc = "upserted"
    /\ LET l == sess[p].form.lines[1]
       IN \E trx_code \in generate_trx_code("IN") :
             transactions' = add_transaction_record(transactions, "in", sess[p].read.id,
                                                    l.name, l.quantity, l.unit,
                                                    trx_code, trx_code)
    /\ sess' = [sess EXCEPT ![p] = Session("done", sess[p].form, "ok", sess[p].read,
                                            NoTables)]
    /\ UNCHANGED <<items, nextId, files, users, auth>>

\* where the outbound batch handler is: the line it is at, what
\* adjust_item_for_out read for it, whether the pre-flight pass has found a
\* line short, and the code of the batch
BatchRead(line, id, quantity, short, code) ==
    [line |-> line, id |-> id, quantity |-> quantity, short |-> short, code |-> code]

NoCode == << >>

\* lines 576-587: the checks of the form
BatchOutCheck(p) ==
    /\ Submitted(p, "out_batch")
    /\ LET lines == sess[p].form.lines
       IN IF lines = << >>
          THEN Rejected(p, "empty")
          ELSE IF sess[p].form.requester = EmptyText \/ BadLines(lines) # {}
          THEN Rejected(p, "validation")
          ELSE /\ Goto(p, "preflight", BatchRead(1, NoId, 0, FALSE, NoCode))
               /\ UNCHANGED <<items, transactions, nextId, files, users, auth>>

\* lines 590-602: the select of the pre-flight pass for one line; after the
\* last line the batch is refused or gets its code
BatchPreflight(p) ==
    /\ sess[p].pc = "preflight"
    /\ LET lines == sess[p].form.lines
           at == sess[p].read
           res == Matches(items, lines[at.line].name, lines[at.line].unit)
       IN \E short \in { at.short \/ res = {} \/ Short(row, lines[at.line].quantity)
                         : row \in IF res = {} THEN {NoRead} ELSE res } :
             IF at.line < Len(lines)
             THEN /\ Goto(p, "preflight", BatchRead(at.line + 1, NoId, 0, short, NoCode))
                  /\ UNCHANGED <<items, transactions, nextId, files, users, auth>>
             ELSE IF short
             THEN Rejected(p, "insufficient")
             ELSE /\ \E trx_code \in generate_trx_code("OUT") :
                        Goto(p, "applying", BatchRead(1, NoId, 0, FALSE, trx_code))
                  /\ UNCHANGED <<items, transactions, nextId, files, users, auth>>

\* line 604, adjust_item_for_out lines 162-168 for the line the loop is at:
\* the error it returns is dropped
BatchAdjustRead(p) ==
    /\ sess[p].pc = "applying"
    /\ LET lines == sess[p].form.lines
           at == sess[p].read
           res == Matches(items, lines[at.line].name, lines[at.line].unit)
       IN /\ IF res = {}
             THEN Goto(p, "recording", at)
             ELSE \E item \in res :
                     IF ShortExisting(item.quantity, lines[at.line].quantity)
                     THEN Goto(p, "recording", at)
                     ELSE Goto(p, "writing",
                               BatchRead(at.line, item.id, item.quantity, FALSE, at.code))
          /\ UNCHANGED <<items, transactions, nextId, files, users, auth>>

\* adjust_item_for_out, lines 169-170, for the line the loop is at
BatchAdjustWrite(p) ==
    /\ sess[p].pc = "writing"
    /\ LET l == sess[p].form.lines[sess[p].read.line]
           new_qty == NewQty(sess[p].read.quantity, l.quantity)
       IN items' = { IF r.id = sess[p].read.id THEN [r EXCEPT !.quantity = new_qty] ELSE r
                     : r \in items }
    /\ Goto(p, "recording", sess[p].read)
    /\ UNCHANGED <<transactions, nextId, files, users, auth>>

\* line 605: the row of the line the loop is at; after the last line the
\* handler ends
BatchRecord(p) ==
    /\ sess[p].pc = "recording"
    /\ LET lines == sess[p].form.lines
           at == sess[p].read
           l == lines[at.line]
       IN /\ transactions' = add_transaction_record(transactions, "out", at.id, l.name,
                                                    l.quantity, l.unit, at.code, at.code)
          /\ IF at.line < Len(lines)
             THEN Goto(p, "applying", BatchRead(at.line + 1, NoId, 0, FALSE, at.code))
             ELSE sess' = [sess EXCEPT ![p] = Session("done", sess[p].form, "ok", at,
                                                      NoTables)]
    /\ UNCHANGED <<items, nextId, files, users, auth>>

\* lines that take or bring pieces of ("a", "u")
MixLines == { Line(<<"a">>, <<"u">>, q) : q \in 1..MaxQty }

MixForms ==
    { Form("out", <<l>>, <<"r">>, NoColumns) : l \in MixLines }
    \cup InForms(MixLines)
    \cup { Form("out_batch", ls, <<"r">>, NoColumns) : ls \in UpTo(MixLines, MaxLines) \ {<< >>} }

NextMix ==
    \E p \in Sessions :
       \/ \E form \in LoginForms : LoginPage(p, form)
       \/ \E form \in MixForms : Submit(p, form)
       \/ OutCheck(p)
       \/ OutAdjustRead(p)
       \/ OutAdjustWrite(p) /\ Bounded
       \/ OutRecord(p) /\ Bounded
       \/ InUpsertRead(p)
       \/ InUpsertWrite(p) /\ Bounded
       \/ InRecord(p) /\ Bounded
       \/ BatchOutCheck(p)
       \/ BatchPreflight(p)
       \/ BatchAdjustRead(p)
       \/ BatchAdjustWrite(p) /\ Bounded
       \/ BatchRecord(p) /\ Bounded
       \/ EndRun(p)

SpecMix == InitConc /\ [][NextMix]_vars

----------------------------------------------------------------------------
(* The login gate, the accounts and the reset, with two sessions.          *)

\* the Logout button (lines 303-306): the flag is cleared, then the run ends
\* in the AttributeError of line 306, before the pages
Logout(p) ==
    /\ auth[p]
    /\ sess[p].pc = "idle"
    /\ auth' = [auth EXCEPT ![p] = FALSE]
    /\ UNCHANGED <<items, transactions, nextId, sess, files, users>>

\* form_user (lines 681-684)
UserForm(new_user, new_pw) ==
    [op |-> "add_user", lines |-> << >>, requester |-> << >>, columns |-> NoColumns,
     new_user |-> new_user, new_pw |-> new_pw]

\* "Pengaturan", the handler of form_user (lines 685-693); the insert of a
\* username that exists raises (primary key) and the handler reports it
UserPage(p) ==
    /\ Submitted(p, "add_user")
    /\ LET form == sess[p].form
       IN IF form.new_user = "" \/ form.new_pw = ""
          THEN Rejected(p, "validation")
          ELSE IF \E u \in users : u.username = form.new_user
          THEN Rejected(p, "failed")
          ELSE /\ users' = users \cup {Account(form.new_user, hash_pw(form.new_pw))}
               /\ sess' = [sess EXCEPT ![p] = Session("done", form, "ok", sess[p].read,
                                                       Tables(items, transactions))]
               /\ UNCHANGED <<items, transactions, nextId, files, auth>>

UserForms ==
    { UserForm("keep_admin", "x"), UserForm("admin", "admin123"), UserForm("", "x"),
      UserForm("admin", "") }

\* the announced account, a wrong password, no username, another account
GateLogins ==
    { LoginForm("admin", "admin123"), LoginForm("admin", "x"), LoginForm("", "admin123"),
      LoginForm("keep_admin", "x") }

\* one piece of ("a", "u")
PieceLine == Line(<<"a">>, <<"u">>, 1)

\* a form of every page
GateForms ==
    { Form("in", <<PieceLine>>, << >>, NoColumns),
      Form("out", <<PieceLine>>, <<"r">>, NoColumns),
      Form("import", <<PieceLine>>, << >>, RequiredColumns),
      ResetForm, ReportForm }
    \cup UserForms

MaxGateLog == 1  \* rows of the log with two sessions at the gate

GateBounded == Bounded /\ Len(transactions') <= MaxGateLog

NextAuth ==
    \E p \in Sessions :
       \/ \E form \in GateLogins : LoginPage(p, form)
       \/ Logout(p)
       \/ \E form \in GateForms : Submit(p, form)
       \/ RecordInbound(p) /\ GateBounded
       \/ RecordOutbound(p) /\ GateBounded
       \/ load_inventory_from_excel(p) /\ GateBounded
       \/ ReportPage(p)
       \/ ResetDB(p)
       \/ UserPage(p)
       \/ EndRun(p)

SpecAuth == Init /\ [][NextAuth]_vars

----------------------------------------------------------------------------
(* The properties.  They are stated of the state in which session 1's      *)
(* handler has just ended: the form it handled, the tables as it found     *)
(* them and the tables as they are.                                        *)

TheForm == sess[1].form
TheLine == sess[1].form.lines[1]
Before == sess[1].before

\* session 1's handler of op has ended
Handled(op) == sess[1].pc = "done" /\ sess[1].form.op = op

\* a line with an empty name, an empty unit or no positive quantity
Defective(l) == l.name = << >> \/ l.unit = << >> \/ ~(l.quantity > 0)

\* the rows of its named (name, unit)
Named(its, name, unit) == { r \in its : r.name = name /\ r.unit = unit }

\* the quantity stored for (name, unit), 0 when there is no such item
Stored(its, name, unit) ==
    IF Named(its, name, unit) = {} THEN 0
    ELSE (CHOOSE r \in Named(its, name, unit) : TRUE).quantity

\* the handler kept the rows it found and added rows at the end
OnlyAppended ==
    /\ Len(transactions) >= Len(Before.transactions)
    /\ SubSeq(transactions, 1, Len(Before.transactions)) = Before.transactions

\* the rows the handler appended
Appended == SubSeq(transactions, Len(Before.transactions) + 1, Len(transactions))

StoreUnchanged == items = Before.items /\ transactions = Before.transactions

RECURSIVE Movements(_, _)
\* inbound minus outbound quantities of the rows of trs that reference item id
Movements(trs, id) ==
    IF trs = << >> THEN 0
    ELSE (IF Head(trs).item_id # id THEN 0
          ELSE IF Head(trs).trx_type = "in" THEN Head(trs).quantity
          ELSE -Head(trs).quantity)
         + Movements(Tail(trs), id)

\* C1: every item's stored quantity equals the sum of the quantities of its
\* inbound Transaction rows minus the sum of those of its outbound rows.
C1_LedgerReconciled ==
    \A r \in items : r.quantity = Movements(transactions, r.id)

\* C8: every item's quantity is >= 0 in every reachable state.
C8_NonNegativeStock ==
    \A r \in items : r.quantity >= 0

\* a single outbound form that passes the form check was handled
OutboundHandled ==
    Handled("out") /\ ~Defective(TheLine) /\ TheForm.requester # << >>

\* C5: a RecordOutbound for more than the item's current quantity fails with
\* the insufficient-stock error, leaves the item's quantity as it is (it is
\* not clamped to zero) and appends no Transaction row, every time it is
\* submitted.
C5_ShortOutboundRejected ==
    (/\ OutboundHandled
     /\ \E r \in Named(Before.items, TheLine.name, TheLine.unit) :
           r.quantity < TheLine.quantity)
    => (sess[1].result = "insufficient" /\ StoreUnchanged)

\* C5, its case: stock is left, less than what was asked for, and the
\* request was refused
C5_Witness ==
    /\ OutboundHandled /\ sess[1].result = "insufficient"
    /\ \E r \in Named(Before.items, TheLine.name, TheLine.unit) :
          r.quantity > 0 /\ r.quantity < TheLine.quantity

\* C6: a RecordOutbound on an existing item with current quantity >=
\* requested quantity > 0 leaves the item with the old quantity minus the
\* requested one and appends exactly one outbound row with that quantity.
C6_OutboundDecrements ==
    (/\ OutboundHandled
     /\ \E r \in Named(Before.items, TheLine.name, TheLine.unit) :
           r.quantity >= TheLine.quantity)
    => (/\ sess[1].result = "ok"
        /\ \E r \in Named(Before.items, TheLine.name, TheLine.unit) :
              items = (Before.items \ {r})
                      \cup {[r EXCEPT !.quantity = r.quantity - TheLine.quantity]}
        /\ OnlyAppended
        /\ Len(Appended) = 1
        /\ Appended[1].trx_type = "out"
        /\ Appended[1].quantity = TheLine.quantity)

\* C6, its case: the whole stock was requested and handed out
C6_Witness ==
    /\ OutboundHandled /\ sess[1].result = "ok"
    /\ Stored(Before.items, TheLine.name, TheLine.unit) = TheLine.quantity
    /\ Stored(items, TheLine.name, TheLine.unit) = 0

\* a single inbound form with every field filled in was handled
InboundHandled == Handled("in") /\ ~Defective(TheLine)

\* the item (name, unit) holds its old quantity plus the line's, and one
\* inbound row with the line's quantity was appended
InboundBooked(name, unit) ==
    /\ Cardinality(Named(items, name, unit)) = 1
    /\ Stored(items, name, unit) = Stored(Before.items, name, unit) + TheLine.quantity
    /\ OnlyAppended
    /\ Len(Appended) = 1
    /\ Appended[1].trx_type = "in"
    /\ Appended[1].quantity = TheLine.quantity

SomeDefective(lines) == \E i \in 1..Len(lines) : Defective(lines[i])

\* line l names an item that is not in its or asks for more than it holds
Unstocked(its, l) ==
    \/ Named(its, l.name, l.unit) = {}
    \/ \E r \in Named(its, l.name, l.unit) : r.quantity < l.quantity

SomeUnstocked(its, lines) == \E i \in 1..Len(lines) : Unstocked(its, lines[i])

\* C2: a batch submission with a line that has an empty name, an empty unit
\* or quantity <= 0, or (outbound) that names a missing item or asks for more
\* than the item's current quantity, changes no item quantity, creates no
\* item and appends no Transaction row, wherever the line stands.
C2_BatchAllOrNothing ==
    (\/ Handled("in_batch") /\ SomeDefective(TheForm.lines)
     \/ /\ Handled("out_batch")
        /\ SomeDefective(TheForm.lines) \/ SomeUnstocked(Before.items, TheForm.lines))
    => (sess[1].result # "ok" /\ StoreUnchanged)

\* C2, its case: the batch was refused for its last line, its first line
\* being one that could have been applied
C2_Witness ==
    /\ sess[1].pc = "done" /\ sess[1].result # "ok"
    /\ Len(TheForm.lines) = 2
    /\ ~Defective(TheForm.lines[1])
    /\ ~Unstocked(Before.items, TheForm.lines[1])
    /\ \/ TheForm.op = "in_batch" /\ TheForm.lines[2].name = << >>
       \/ /\ TheForm.op = "out_batch" /\ ~Defective(TheForm.lines[2])
          /\ Unstocked(Before.items, TheForm.lines[2])

RECURSIVE Requested(_, _, _)
\* the sum of the quantities of the lines that name (name, unit)
Requested(lines, name, unit) ==
    IF lines = << >> THEN 0
    ELSE (IF Head(lines).name = name /\ Head(lines).unit = unit
          THEN Head(lines).quantity ELSE 0)
         + Requested(Tail(lines), name, unit)

\* an outbound batch that passes the field validation and the pre-flight
\* stock check was handled
OutboundBatchHandled ==
    /\ Handled("out_batch")
    /\ TheForm.lines # << >> /\ TheForm.requester # << >>
    /\ ~SomeDefective(TheForm.lines) /\ ~SomeUnstocked(Before.items, TheForm.lines)

\* C3: when every line passes the field validation and the pre-flight stock
\* check, every line of the batch (lines naming the same item included)
\* decrements its item by the line's quantity and gets exactly one outbound
\* row; no outbound row is appended for a line whose decrement was not
\* applied.
C3_OutboundBatchApplied ==
    OutboundBatchHandled
    => (/\ \A r \in Before.items :
              \E r2 \in items :
                 /\ r2.id = r.id
                 /\ r2.quantity = r.quantity - Requested(TheForm.lines, r.name, r.unit)
        /\ OnlyAppended
        /\ Len(Appended) = Len(TheForm.lines)
        /\ \A k \in 1..Len(Appended) :
              /\ Appended[k].trx_type = "out"
              /\ Appended[k].quantity = TheForm.lines[k].quantity
              /\ \E r \in Named(Before.items, TheForm.lines[k].name, TheForm.lines[k].unit) :
                    Appended[k].item_id = r.id)

\* an inbound batch of lines that all pass validation was handled
InboundBatchHandled ==
    Handled("in_batch") /\ TheForm.lines # << >> /\ ~SomeDefective(TheForm.lines)

RECURSIVE Received(_, _, _)
\* the sum of the quantities of the lines that resolve to (name, unit)
Received(lines, name, unit) ==
    IF lines = << >> THEN 0
    ELSE (IF Strip(Head(lines).name) = name /\ Head(lines).unit = unit
          THEN Head(lines).quantity ELSE 0)
         + Received(Tail(lines), name, unit)

\* C4: when every one of the N lines passes validation, every line's item
\* has its quantity increased by the line's quantity (or is created with it)
\* and exactly N inbound rows, one per line, are appended.
C4_InboundBatchApplied ==
    InboundBatchHandled
    => (/\ \A k \in 1..Len(TheForm.lines) :
              LET name == Strip(TheForm.lines[k].name)
                  unit == TheForm.lines[k].unit
              IN /\ Named(items, name, unit) # {}
                 /\ Stored(items, name, unit) =
                       Stored(Before.items, name, unit) + Received(TheForm.lines, name, unit)
        /\ OnlyAppended
        /\ Len(Appended) = Len(TheForm.lines)
        /\ \A k \in 1..Len(Appended) :
              /\ Appended[k].trx_type = "in"
              /\ Appended[k].quantity = TheForm.lines[k].quantity)

\* C10: all rows appended by one batch submission carry the same bundle code
\* and the same transaction code, and on each of them the bundle code equals
\* the transaction code.
C10_SharedBatchCodes ==
    (Handled("in_batch") \/ Handled("out_batch"))
    => (/\ OnlyAppended
        /\ \A i, j \in 1..Len(Appended) :
              /\ Appended[i].bundle_code = Appended[j].bundle_code
              /\ Appended[i].trx_code = Appended[j].trx_code
              /\ Appended[i].bundle_code = Appended[i].trx_code)

\* C10, its case: an outbound batch of two lines has appended its two rows
C10_Witness ==
    /\ Handled("out_batch") /\ sess[1].result = "ok"
    /\ Len(TheForm.lines) = 2
    /\ OnlyAppended
    /\ Len(Appended) = 2

Max(a, b) == IF a >= b THEN a ELSE b

\* session p's single outbound request has succeeded
Succeeded(p) ==
    sess[p].pc = "done" /\ sess[p].form.op = "out" /\ sess[p].result = "ok"

\* the first two outbound requests to succeed were those of sessions 1 and 2,
\* on the same item, and together they took more than either of them found
Oversold ==
    /\ Succeeded(1) /\ Succeeded(2)
    /\ Len(transactions) = 2
    /\ sess[1].read.id = sess[2].read.id
    /\ sess[1].form.lines[1].quantity + sess[2].form.lines[1].quantity
          > Max(sess[1].read.quantity, sess[2].read.quantity)

\* C9: two outbound requests on the same item whose steps interleave can
\* both succeed although together they ask for more than was available; it
\* happens when, and only when, both pass the stock check on the same
\* quantity, before either has committed its decrement, and the stored
\* quantity then shows one of the two decrements only.
C9_OversellOnlyByRace ==
    Oversold
    => (/\ sess[1].read.quantity = sess[2].read.quantity
        /\ \A r \in items :
              r.id = sess[1].read.id
              => \E p \in Sessions :
                    r.quantity = sess[p].read.quantity - sess[p].form.lines[1].quantity)

\* C9, its case: both requests succeeded on a quantity that does not cover
\* their sum
C9_Witness ==
    /\ Oversold
    /\ sess[1].read.quantity = sess[2].read.quantity

\* s is the beginning of t
IsPrefix(s, t) == Len(s) <= Len(t) /\ SubSeq(t, 1, Len(s)) = s

\* C11: a Transaction row once appended is never modified and never removed
\* by any operation other than the bulk reset: every step that is not the
\* bulk reset leaves the rows of the log as they are and can only add rows
\* at its end.
C11_AppendOnlyLog ==
    [][Submitted(1, "reset") \/ IsPrefix(transactions, transactions')]_vars

\* C11, its case: a handler other than the reset has added a row to a log
\* that had rows
C11_Witness ==
    /\ sess[1].pc = "done" /\ TheForm.op # "reset"
    /\ Before.transactions # << >>
    /\ IsPrefix(Before.transactions, transactions)
    /\ Len(transactions) > Len(Before.transactions)

\* C13: a RecordOutbound that names an item that does not exist creates no
\* item, changes no quantity and appends no Transaction row; when its form
\* is filled in it fails with the not-found error.
C13_AbsentOutboundRejected ==
    (Handled("out") /\ Named(Before.items, TheLine.name, TheLine.unit) = {})
    => (/\ StoreUnchanged
        /\ sess[1].result # "ok"
        /\ OutboundHandled => sess[1].result = "not_found")

\* C13, its case: the item was asked for under another unit than the one it
\* is stored with, and the request was refused as not found
C13_Witness ==
    /\ OutboundHandled /\ sess[1].result = "not_found"
    /\ Named(Before.items, TheLine.name, TheLine.unit) = {}
    /\ \E r \in Before.items : r.name = TheLine.name /\ r.quantity >= TheLine.quantity

\* C14: a RecordInbound with quantity <= 0, an empty name or an empty unit,
\* and a RecordOutbound with an empty requester, an empty name, an empty unit
\* or quantity <= 0, are rejected with the validation error and leave items
\* and transactions unchanged.
C14_SingleValidation ==
    (\/ Handled("in") /\ Defective(TheLine)
     \/ Handled("out") /\ (Defective(TheLine) \/ TheForm.requester = << >>))
    => (sess[1].result = "validation" /\ StoreUnchanged)

\* C14, its case: an outbound form without a requester, for stock that is
\* there, was rejected
C14_Witness ==
    /\ Handled("out") /\ sess[1].result = "validation"
    /\ ~Defective(TheLine) /\ TheForm.requester = << >>
    /\ Stored(Before.items, TheLine.name, TheLine.unit) >= TheLine.quantity

\* C14, its other case: an inbound form with quantity 0 for an item that is
\* in stock was rejected
C14_WitnessInbound ==
    /\ Handled("in") /\ sess[1].result = "validation"
    /\ TheLine.quantity = 0
    /\ Stored(Before.items, TheLine.name, TheLine.unit) > 0

\* C17: after the bulk reset the items collection and the transactions
\* collection are both empty, whatever they held.
C17_ResetEmptiesBoth ==
    Handled("reset") => (items = {} /\ transactions = << >>)

\* C17, its case: the reset ran on a store with two items and a log of rows
C17_Witness ==
    /\ Handled("reset")
    /\ Cardinality(Before.items) = 2 /\ Before.transactions # << >>
    /\ items = {} /\ transactions = << >>

\* C12: no two items have the same (name, unit) pair; an inbound recording
\* for a (name, unit) that exists accumulates into that item and creates no
\* second one, and it leaves the items of the same name and another unit as
\* they are (recording for another unit creates or updates a separate item).
C12_ItemIdentity ==
    /\ \A r1, r2 \in items : (r1.name = r2.name /\ r1.unit = r2.unit) => r1 = r2
    /\ InboundHandled
       => (/\ Named(Before.items, TheLine.name, TheLine.unit) # {}
              => (/\ { r.id : r \in items } = { r.id : r \in Before.items }
                  /\ Stored(items, TheLine.name, TheLine.unit) =
                        Stored(Before.items, TheLine.name, TheLine.unit) + TheLine.quantity)
           /\ \A r \in Before.items :
                 (r.name = Strip(TheLine.name) /\ r.unit # TheLine.unit) => r \in items
           /\ Cardinality(Named(items, Strip(TheLine.name), TheLine.unit)) = 1)

\* C12, its case: with the item stored under two units, an inbound recording
\* for one of them was added to it
C12_Witness ==
    /\ InboundHandled /\ sess[1].result = "ok"
    /\ Cardinality(Before.items) = 2 /\ Cardinality(items) = 2
    /\ \A r \in items : r.name = TheLine.name
    /\ Stored(Before.items, TheLine.name, TheLine.unit) > 0
    /\ Stored(items, TheLine.name, TheLine.unit) >
          Stored(Before.items, TheLine.name, TheLine.unit)

\* the spellings of a column name
Spellings(r) ==
    CASE r = "name" -> {"name", "Name", "NAME"}
      [] r = "quantity" -> {"quantity", "Quantity", "QUANTITY"}
      [] r = "unit" -> {"unit", "Unit", "UNIT"}

\* the sheet has column r in some letter case
HasColumn(columns, r) == columns \cap Spellings(r) # {}

HasRequiredColumns(columns) ==
    HasColumn(columns, "name") /\ HasColumn(columns, "quantity") /\ HasColumn(columns, "unit")

\* C15: an import of a table that lacks one of the columns name, quantity,
\* unit (in whatever letter case) fails with an error and creates or changes
\* no item, even when the table has rows; a table that has them in another
\* letter case is not refused for its columns.
C15_ColumnGate ==
    Handled("import")
    => (/\ ~HasRequiredColumns(TheForm.columns)
           => (sess[1].result = "format" /\ StoreUnchanged)
        /\ HasRequiredColumns(TheForm.columns) => sess[1].result # "format")

\* C15, its case: a sheet with a row and the columns QUANTITY and unit, but
\* no column name, was refused on a store that holds items
C15_Witness ==
    /\ Handled("import") /\ sess[1].result = "format"
    /\ TheForm.columns = {"QUANTITY", "unit"}
    /\ TheForm.lines # << >>
    /\ Before.items # {}

\* rows is a sheet of the items its: one row per item, with its name, unit
\* and quantity
ExportOf(rows, its) ==
    /\ Len(rows) = Cardinality(its)
    /\ \A r \in its : \E k \in 1..Len(rows) :
          rows[k].name = r.name /\ rows[k].unit = r.unit /\ rows[k].quantity = r.quantity

\* a downloaded workbook was uploaded
ExportImported ==
    Handled("import") /\ TheForm.columns = ItemColumns /\ TheForm.lines # << >>

\* C16: importing an exported item set into an empty store reproduces, for
\* every (name, unit), the exported quantity; importing it into the store it
\* was exported from adds each exported quantity to the quantity of the same
\* (name, unit) item and creates no additional item.
C16_RoundTrip ==
    ExportImported
    => (/\ Before.items = {}
           => (/\ Cardinality(items) = Len(TheForm.lines)
               /\ \A k \in 1..Len(TheForm.lines) :
                     LET row == TheForm.lines[k]
                     IN /\ Named(items, row.name, row.unit) # {}
                        /\ Stored(items, row.name, row.unit) = row.quantity)
        /\ ExportOf(TheForm.lines, Before.items)
           => (/\ Cardinality(items) = Cardinality(Before.items)
               /\ \A r \in Before.items :
                     Stored(items, r.name, r.unit) = r.quantity + r.quantity))

\* C18: the report page leaves the items collection and the transactions
\* collection unchanged, whatever they hold.
C18_ReportReadOnly ==
    (Handled("report") \/ Handled("download")) => StoreUnchanged

\* C18, its case: the report was opened on a store with items and a log of
\* two rows
C18_Witness ==
    /\ Handled("report")
    /\ Before.items # {} /\ Len(Before.transactions) = 2
    /\ StoreUnchanged

\* the bucket of a day under granularity period
BucketOf(period, d) == IF period = "W" THEN WeekBucket(d) ELSE MonthBucket(d)

\* rows i and j of the frame are in the same group
SameGroup(period, df, i, j) ==
    /\ BucketOf(period, df[i].date) = BucketOf(period, df[j].date)
    /\ df[i].name = df[j].name /\ df[i].unit = df[j].unit
    /\ df[i].trx_type = df[j].trx_type

\* row g of the result stands for the group of row i
GroupRowOf(period, df, g, i) ==
    /\ g.bucket = BucketOf(period, df[i].date)
    /\ g.name = df[i].name /\ g.unit = df[i].unit /\ g.trx_type = df[i].trx_type

RECURSIVE GroupTotal(_, _, _, _)
\* the sum of the quantities of the rows 1..n of the frame in the group of row i
GroupTotal(period, df, i, n) ==
    IF n = 0 THEN 0
    ELSE (IF SameGroup(period, df, i, n) THEN df[n].quantity ELSE 0)
         + GroupTotal(period, df, i, n - 1)

\* C19: for granularity Week or Month the result of TotalsByPeriod has
\* exactly one row per non-empty group (period bucket, item name, unit,
\* movement type), whose quantity is the sum of the quantities of the
\* movements of the group; for an empty movement set the result is empty.
C19_TotalsGrouped ==
    (Handled("totals") /\ TheForm.period \in {"W", "M"})
    => LET df == TheForm.lines
           period == TheForm.period
           result == sess[1].result
       IN /\ \A i \in DOMAIN df :
                /\ Cardinality({ g \in result : GroupRowOf(period, df, g, i) }) = 1
                /\ \A g \in result :
                      GroupRowOf(period, df, g, i)
                      => g.quantity = GroupTotal(period, df, i, Len(df))
          /\ \A g \in result : \E i \in DOMAIN df : GroupRowOf(period, df, g, i)
          /\ df = << >> => result = {}

\* C19, its case: two movements of two days of one week were summed into
\* the one row of their group
C19_Witness ==
    /\ Handled("totals") /\ TheForm.period = "W"
    /\ Len(TheForm.lines) = 2
    /\ TheForm.lines[1].date # TheForm.lines[2].date
    /\ TheForm.lines[1].quantity # TheForm.lines[2].quantity
    /\ Cardinality(sess[1].result) = 1
    /\ \A g \in sess[1].result :
          g.quantity = TheForm.lines[1].quantity + TheForm.lines[2].quantity

\* C20: a RecordInbound that resolves to an existing item overwrites that
\* item's category, minimum stock, rack location and expiry date with the
\* supplied values and leaves its identifier, name, unit and created
\* timestamp unchanged; every other item is left entirely unchanged.
C20_MetaOverwritten ==
    InboundHandled
    => \A r \in Named(Before.items, Strip(TheLine.name), TheLine.unit) :
          \E r2 \in items :
             /\ r2.id = r.id /\ r2.name = r.name /\ r2.unit = r.unit
             /\ r2.created_at = r.created_at
             /\ r2.category = TheLine.meta.category
             /\ r2.min_stock = TheLine.meta.min_stock
             /\ r2.rack_location = TheLine.meta.rack_location
             /\ r2.expiry_date = TheLine.meta.expiry_date
             /\ items \ {r2} = Before.items \ {r}

\* C20, its case: an item whose optional columns were filled in by one
\* inbound recording had them blanked by the next one, beside another item
C20_Witness ==
    /\ InboundHandled /\ sess[1].result = "ok"
    /\ Cardinality(Before.items) = 2 /\ Cardinality(items) = 2
    /\ TheLine.meta = DefaultMeta
    /\ \E r \in Named(Before.items, Strip(TheLine.name), TheLine.unit) :
          r.category = "c" /\ r.rack_location = "k"
    /\ \E r2 \in Named(items, Strip(TheLine.name), TheLine.unit) :
          r2.category = "" /\ r2.rack_location = ""

\* an inbound or outbound recording, single or batch, has succeeded
MovementRecorded ==
    /\ sess[1].pc = "done" /\ sess[1].result = "ok"
    /\ TheForm.op \in {"in", "out", "in_batch", "out_batch"}

\* C21: every Transaction row appended by a single or batch inbound or
\* outbound recording references the item whose quantity the movement
\* changed, and its name and unit are that item's stored name and unit, also
\* when the name was supplied with leading or trailing whitespace.
C21_LinkedSnapshot ==
    MovementRecorded
    => (/\ OnlyAppended
        /\ \A k \in 1..Len(Appended) :
              \E r \in items :
                 /\ r.id = Appended[k].item_id
                 /\ r.name = Appended[k].name /\ r.unit = Appended[k].unit
                 /\ \A r0 \in Before.items : r0.id = r.id => r0.quantity # r.quantity)

\* a batch was interrupted by a call that raised after the loop had gone
\* through at least one line
Interrupted ==
    /\ sess[1].pc = "done" /\ TheForm.op \in {"in_batch", "out_batch"}
    /\ "applied" \in DOMAIN sess[1]
    /\ sess[1].applied >= 1

RECURSIVE Left(_, _, _, _, _)
\* what is left of the quantity q of item (name, unit) after the first n
\* lines took theirs, a line that asks for more than is left taking nothing
Left(q, lines, name, unit, n) ==
    IF n = 0 THEN q
    ELSE LET q1 == Left(q, lines, name, unit, n - 1)
             l == lines[n]
         IN IF l.name = name /\ l.unit = unit /\ l.quantity <= q1
            THEN q1 - l.quantity ELSE q1

\* the rows of the first k lines, and nothing else, were added to the log
RowsOfFirst(k) ==
    /\ k < Len(TheForm.lines)
    /\ OnlyAppended /\ Len(Appended) = k
    /\ \A i \in 1..k :
          /\ Appended[i].trx_type = "out"
          /\ Appended[i].name = TheForm.lines[i].name
          /\ Appended[i].unit = TheForm.lines[i].unit
          /\ Appended[i].quantity = TheForm.lines[i].quantity
    /\ { r.id : r \in items } = { r.id : r \in Before.items }

\* C22 as stated: when a call fails after k >= 1 lines have been applied,
\* the quantity changes and the rows of those k lines remain, and no
\* remaining line is applied: every item holds what the first k lines left.
C22_AsStated ==
    Interrupted
    => (/\ RowsOfFirst(sess[1].applied)
        /\ \A r \in Before.items : \E r2 \in items :
              /\ r2.id = r.id
              /\ r2.quantity = Left(r.quantity, TheForm.lines, r.name, r.unit,
                                    sess[1].applied))

\* C22 amended: the quantity changes and the rows of the k lines remain and
\* the lines after the one during which the call failed are not applied;
\* that line has no row, and its quantity change is committed already when
\* the failing call is the insert of its row.
C22_NoRollback ==
    Interrupted
    => (/\ RowsOfFirst(sess[1].applied)
        /\ \A r \in Before.items : \E r2 \in items :
              /\ r2.id = r.id
              /\ \/ r2.quantity = Left(r.quantity, TheForm.lines, r.name, r.unit,
                                       sess[1].applied)
                 \/ r2.quantity = Left(r.quantity, TheForm.lines, r.name, r.unit,
                                       sess[1].applied + 1))

\* C22, its case: of three lines the first was applied, the second lost its
\* row to the failing insert after its quantity was taken, the third was
\* not reached
C22_Witness ==
    /\ Interrupted /\ sess[1].applied = 1
    /\ Len(TheForm.lines) = 3
    /\ TheForm.lines[1].unit = <<"u">> /\ TheForm.lines[2].unit = <<"u">>
    /\ TheForm.lines[3].unit = <<"v">>
    /\ Len(Appended) = 1
    /\ Stored(items, <<"a">>, <<"u">>) = Stored(Before.items, <<"a">>, <<"u">>) - 2
    /\ Stored(Before.items, <<"a">>, <<"v">>) > 0
    /\ Stored(items, <<"a">>, <<"v">>) = Stored(Before.items, <<"a">>, <<"v">>)

\* the ISO 8601 week number of a day of 2024 or 2025, years of 52 weeks: the
\* week of the year's first Thursday is week 1, and the last days of
\* December that fall into it are of week 1 as well
IsoWeek(d) ==
    LET w == (d.yday - (d.wday + 1) + 10) \div 7
    IN IF w < 1 THEN 52 ELSE IF w > 52 THEN 1 ELSE w

\* C23: for granularity Week two movements fall into the same period bucket
\* exactly when their dates have the same year and the same ISO week number,
\* the first and last days of a calendar year included; for granularity
\* Month, exactly when they have the same year and month.
C23_WeekBuckets ==
    (Handled("totals") /\ TheForm.period \in {"W", "M"})
    => LET df == TheForm.lines
       IN \A i, j \in DOMAIN df :
             (/\ df[i].name = df[j].name /\ df[i].unit = df[j].unit
              /\ df[i].trx_type = df[j].trx_type)
             => ((\E g \in sess[1].result :
                     /\ GroupRowOf(TheForm.period, df, g, i)
                     /\ GroupRowOf(TheForm.period, df, g, j))
                 <=> (/\ df[i].date.year = df[j].date.year
                      /\ IF TheForm.period = "W"
                         THEN IsoWeek(df[i].date) = IsoWeek(df[j].date)
                         ELSE df[i].date.month = df[j].date.month))

\* session p is about to write the quantity of an outbound request
OutWriting(p) == sess[p].pc \in {"adjusting", "writing"}

\* the line of the request session p is at
LineAt(p) ==
    IF sess[p].form.op = "out_batch" THEN sess[p].form.lines[sess[p].read.line]
    ELSE sess[p].form.lines[1]

\* C24: in every interleaving of concurrent outbound recordings (single or
\* batch) and inbound recordings on the same item the item's stored quantity
\* never becomes negative: an outbound write stores the quantity it read
\* minus the requested one, and only after checking that the requested one
\* is not more than what it read.
C24_NeverNegative ==
    /\ \A r \in items : r.quantity >= 0
    /\ \A p \in Sessions : OutWriting(p) => LineAt(p).quantity <= sess[p].read.quantity

\* C24, its case, the lost update: an outbound and an inbound recording read
\* the same quantity and both succeeded, and the item holds what the
\* outbound one wrote, without what was brought in
C24_Witness ==
    /\ sess[1].pc = "done" /\ sess[1].result = "ok" /\ sess[1].form.op = "out_batch"
    /\ sess[2].pc = "done" /\ sess[2].result = "ok" /\ sess[2].form.op = "in"
    /\ Len(sess[1].form.lines) = 1
    /\ sess[1].read.id = sess[2].read.id
    /\ sess[1].read.quantity = sess[2].read.quantity
    /\ \A r \in items :
          /\ r.id = sess[1].read.id
          /\ r.quantity = sess[1].read.quantity - sess[1].form.lines[1].quantity

\* the step is the script run of session p with the login form submitted
LoginRun(p) == sess[p].pc = "idle" /\ sess'[p].pc = "done" /\ sess'[p].form.op = "login"

\* the account table holds the submitted username with the hash of the
\* submitted password
Known(form) ==
    \E u \in users : u.username = form.username /\ u.password_hash = hash_pw(form.password)

\* the step writes to the database or hands out a workbook
Operates ==
    items' # items \/ transactions' # transactions \/ users' # users \/ files' # files

\* C25: no inbound, outbound, import, report, user-management or reset
\* operation is executed in a session whose auth flag is false (such a
\* session only runs the login form); the flag turns true only on a login
\* submission whose username is non-empty and exists in the accounts with
\* the hash of the submitted password; a failed login leaves the flag false.
C25_AuthGate ==
    [][ /\ \A p \in Sessions :
              /\ (~auth[p] /\ sess'[p] # sess[p])
                    => LoginRun(p) \/ (sess[p].form.op = "login" /\ sess'[p] = IdleSession)
              /\ (~auth[p] /\ auth'[p])
                    => LoginRun(p) /\ sess'[p].form.username # "" /\ Known(sess'[p].form)
              /\ (LoginRun(p) /\ ~Known(sess'[p].form)) => ~auth'[p]
        /\ Operates => \E p \in Sessions :
                          auth[p] /\ sess[p].pc = "submitted" /\ sess'[p].pc = "done"
      ]_vars

\* C25, its case: a logged-in session has recorded an inbound while a
\* session whose login was refused is held at the gate
C25_Witness ==
    /\ auth[1] /\ sess[1].pc = "done" /\ sess[1].form.op = "in" /\ sess[1].result = "ok"
    /\ ~auth[2] /\ sess[2].pc = "done" /\ sess[2].form.op = "login"
    /\ sess[2].result = "denied"

====
